---- MODULE Spec2Model ----
(***************************************************************************)
(* Model of streamlit_app.py: the password gate (check_password and its    *)
(* on_change callback password_entered), the memoised client acquisition   *)
(* (get_gsheet_client under st.cache_resource), the TTL-cached loader      *)
(* (load_data under st.cache_data(ttl=600)) and the render pass that loads *)
(* the six platforms in order.                                             *)
(*                                                                         *)
(* Script runs are sequential: one render pass is in progress at a time.   *)
(* The clock, the remote data and the credential file change only between  *)
(* passes, and the remote service is in one condition throughout a pass.   *)
(***************************************************************************)
EXTENDS Integers, Sequences, FiniteSets, TLC

VARIABLES
    session_state,   \* per session: st.session_state, a function on a subset of {"password", "password_correct"}
    prompt,          \* per session: what check_password rendered in the session's latest pass
    submitted,       \* per session: the candidate of the latest on_change event (history)
    rejections,      \* per session: number of candidates password_entered has rejected (history)
    running,         \* the session whose script run is the current or latest one
    passState,       \* "idle" | "gated" | "loading" | "rendered" | "crashed"
    idx,             \* number of load_data calls made so far by the current pass
    order,           \* the dataset names passed to load_data by the current pass, in call order
    data,            \* the dict built at line 136: dataset name -> DataFrame
    clientCache,     \* st.cache_resource entry of get_gsheet_client
    constructions,   \* number of executions of the body of get_gsheet_client (history)
    dataCache,       \* st.cache_data entries of load_data, keyed by worksheet_name
    lastCall,        \* per dataset name: when the latest load_data call was made and what it returned (history)
    now,             \* the clock, in seconds
    credFile,        \* credentials.json on disk: "valid" | "missing" | "malformed"
    remote           \* the condition of the remote service during the current script run

vars == <<session_state, prompt, submitted, rejections, running, passState, idx, order, data,
          clientCache, constructions, dataCache, lastCall, now,
          credFile, remote>>

----------------------------------------------------------------------------
(* Bounds of the model. *)

MaxNow == 900        \* the clock stops here
Step == 300          \* the clock advances in steps of this many seconds
MaxCount == 3        \* the construction counter saturates here
MaxRejections == 2   \* the rejection counter saturates here

Sessions == {"s1"}
TwoSessions == {"s1", "s2"}
Candidates == {"tsunagaru", "Tsunagaru", ""}

----------------------------------------------------------------------------
(* Program constants. *)

TTL == 600

platforms == <<"note", "wantedly", "benchmark", "prtimes_post", "prtimes_daily", "GA4">>

SECRET == "tsunagaru"

(* hashlib.sha256(s.encode()).hexdigest() on the strings the model submits. *)
Sha256Hex(s) ==
    CASE s = "tsunagaru" -> "f1c35a988394b8359c6d576a99c725dc30b6ca9b6b9fcb160891993bd4eac723"
      [] s = "Tsunagaru" -> "70ad8a431bf84b7de733434780009d0adc5f39f1c7d60f4b1417304790457821"
      [] s = ""          -> "e3b0c44298fc1c149afbf4c8996fb92427ae41e4649b934ca495991b7852b855"

(* The worksheets of the fixed spreadsheet and the identity in credentials.json. *)
SheetNames == {platforms[i] : i \in 1..Len(platforms)}
ServiceAccountEmail == "dashboard@project.iam.gserviceaccount.com"

None == "None"
NoSession == "none"

----------------------------------------------------------------------------
(* st.session_state as a mapping with a changing key set. *)

EmptyMap == [k \in {} |-> TRUE]
Has(m, k) == k \in DOMAIN m
Put(m, k, v) == [x \in (DOMAIN m) \cup {k} |-> IF x = k THEN v ELSE m[x]]
Del(m, k) == [x \in (DOMAIN m) \ {k} |-> m[x]]

----------------------------------------------------------------------------
(* The access gate. *)

(* password_entered with the candidate lower-cased before it is hashed. *)
password_entered_anycase(ss) ==
    IF ss["password"] \in {"tsunagaru", "Tsunagaru"}
    THEN Del(Put(ss, "password_correct", TRUE), "password")
    ELSE Put(ss, "password_correct", FALSE)

(* password_entered without the del of line 55. *)
password_entered_keep(ss) ==
    IF Sha256Hex(ss["password"]) = Sha256Hex("tsunagaru")
    THEN Put(ss, "password_correct", TRUE)
    ELSE Put(ss, "password_correct", FALSE)

(* password_entered: the on_change callback of the password input. *)
password_entered(ss) ==
    IF Sha256Hex(ss["password"]) = Sha256Hex(SECRET)
    THEN Del(Put(ss, "password_correct", TRUE), "password")
    ELSE Put(ss, "password_correct", FALSE)

(* st.text_input(..., key="password"): the widget registers its key with
   the empty string unless the session already holds a value for it. *)
text_input(ss) == IF Has(ss, "password") THEN ss ELSE Put(ss, "password", "")

(* check_password without the elif branch of lines 68-76. *)
check_password_noreject(ss) ==
    IF ~Has(ss, "password_correct")
    THEN [ret |-> FALSE, ui |-> "prompt", ss |-> text_input(ss)]
    ELSE [ret |-> TRUE, ui |-> "none", ss |-> ss]

(* check_password: the value returned, what was rendered, the session state after. *)
check_password(ss) ==
    IF ~Has(ss, "password_correct")
    THEN [ret |-> FALSE, ui |-> "prompt", ss |-> text_input(ss)]
    ELSE IF ~ss["password_correct"]
    THEN [ret |-> FALSE, ui |-> "prompt_error", ss |-> text_input(ss)]
    ELSE [ret |-> TRUE, ui |-> "none", ss |-> ss]

Authenticated(ss) == Has(ss, "password_correct") /\ ss["password_correct"]

(* The password input rendered on every pass, whatever check_password finds. *)
CallbackAlways(s) == TRUE

(* The on_change callback is registered by the text_input of the latest pass. *)
CallbackRegistered(s) == prompt[s] \in {"prompt", "prompt_error"}

(* The value the password widget currently shows. *)
WidgetValue(ss) == IF Has(ss, "password") THEN ss["password"] ELSE ""

----------------------------------------------------------------------------
(* Remote client acquisition. *)

NoMsg == <<"none", "">>

(* The body of get_gsheet_client.  The handle is 0 for None and otherwise
   the number of the construction that built the client. *)
get_gsheet_client_body(cred, authOk, n) ==
    IF cred = "missing"
    THEN [value |-> 0, msg |-> <<"error_credentials_not_found", "">>]
    ELSE IF cred = "malformed"
    THEN [value |-> 0, msg |-> <<"error_invalid_credentials", "">>]
    ELSE IF ~authOk
    THEN [value |-> 0, msg |-> <<"error_authentication", "">>]
    ELSE [value |-> n, msg |-> NoMsg]

(* get_gsheet_client without the st.cache_resource decorator. *)
get_gsheet_client_uncached(cache, cred, authOk, count) ==
    LET r == get_gsheet_client_body(cred, authOk, count + 1)
    IN [entry |-> [set |-> TRUE, value |-> r.value, msg |-> r.msg],
        constructed |-> TRUE]

(* get_gsheet_client under st.cache_resource: the body runs only when the
   cache holds no entry, and whatever it returns (None included) is kept
   for the life of the process. *)
get_gsheet_client(cache, cred, authOk, count) ==
    IF cache.set
    THEN [entry |-> cache, constructed |-> FALSE]
    ELSE LET r == get_gsheet_client_body(cred, authOk, count + 1)
         IN [entry |-> [set |-> TRUE, value |-> r.value, msg |-> r.msg],
             constructed |-> TRUE]

----------------------------------------------------------------------------
(* The sheet loader. *)

(* What the remote service can do to one load_data call: nothing wrong, a
   failure opening the spreadsheet (it meets every worksheet), or a failure
   or an empty answer for one worksheet. *)
OpenOutcomes == {"open_perm", "open_api", "open_exc"}
SheetOutcomes == {"ws_exc", "rec_exc", "rec_empty"}
RemoteOk == [f |-> "ok", sheet |-> "all"]
RemoteConditions ==
    {RemoteOk} \cup {[f |-> f, sheet |-> "all"] : f \in OpenOutcomes}
               \cup {[f |-> f, sheet |-> n] : f \in SheetOutcomes, n \in SheetNames}
OutcomeFor(cond, name) == IF cond.sheet \in {"all", name} THEN cond.f ELSE "ok"

EmptyDF == <<>>
DataFrame(rows) == rows

NoExc == [cls |-> "none", text |-> ""]

Return(df, msg) == [kind |-> "return", df |-> df, msg |-> msg, exc |-> "none"]
Raise(cls) == [kind |-> "raise", df |-> EmptyDF, msg |-> NoMsg, exc |-> cls]
Continue == [kind |-> "next", df |-> EmptyDF, msg |-> NoMsg, exc |-> "none"]

(* client.open_by_url(SPREADSHEET_URL): the exception it raises, if any. *)
open_by_url(f) ==
    CASE f = "open_perm" -> [cls |-> "APIError", text |-> "PERMISSION_DENIED"]
      [] f = "open_api"  -> [cls |-> "APIError", text |-> "UNAVAILABLE"]
      [] f = "open_exc"  -> [cls |-> "ConnectionError", text |-> "timeout"]
      [] OTHER           -> NoExc

(* Credentials.from_service_account_file("credentials.json").service_account_email *)
service_account_email(cred) ==
    CASE cred = "missing"   -> [cls |-> "FileNotFoundError", email |-> ""]
      [] cred = "malformed" -> [cls |-> "ValueError", email |-> ""]
      [] OTHER              -> [cls |-> "none", email |-> ServiceAccountEmail]

(* Lines 96-111: opening the spreadsheet and the two handlers around it.
   An exception raised inside a handler leaves the inner try statement. *)
OpenStage(f, cred) ==
    LET e == open_by_url(f) IN
    IF e.cls = "none" THEN Continue
    ELSE IF e.cls = "APIError"
    THEN IF e.text = "PERMISSION_DENIED"
         THEN LET id == service_account_email(cred) IN
              IF id.cls # "none" THEN Raise(id.cls)
              ELSE Return(EmptyDF, <<"error_permission_denied", id.email>>)
         ELSE Return(EmptyDF, <<"error_open_spreadsheet", e.text>>)
    ELSE Return(EmptyDF, <<"error_open_spreadsheet", e.cls>>)

(* Lines 115-119: sheet.worksheet(worksheet_name) and its handler. *)
WorksheetStage(name, f) ==
    IF f = "ws_exc" \/ name \notin SheetNames
    THEN Return(EmptyDF, <<"error_open_worksheet", name>>)
    ELSE Continue

(* worksheet.get_all_records(): one record per data row.  The rows of a
   worksheet do not change while the model runs. *)
get_all_records(name, f) ==
    IF f = "rec_empty" THEN <<>> ELSE <<[sheet |-> name, row |-> 1]>>

(* Lines 123-128: no handler of its own around the fetch. *)
RecordsStage(name, f) ==
    IF f = "rec_exc" THEN Raise("APIError")
    ELSE LET records == get_all_records(name, f) IN
         IF records = <<>>
         THEN Return(EmptyDF, <<"info_no_data", name>>)
         ELSE Return(DataFrame(records), NoMsg)

(* Lines 89-128: the statements inside the outer try. *)
TryBlock(name, client, f, cred) ==
    IF client = 0
    THEN Return(EmptyDF, <<"warning_client_unavailable", "">>)
    ELSE LET o == OpenStage(f, cred) IN
         IF o.kind # "next" THEN o
         ELSE LET w == WorksheetStage(name, f) IN
              IF w.kind # "next" THEN w
              ELSE RecordsStage(name, f)

(* The top-level handler catching gspread.exceptions.APIError only. *)
TopLevelHandlerAPIOnly(name, r) ==
    IF r.kind = "raise" /\ r.exc = "APIError"
    THEN Return(EmptyDF, <<"error_unexpected", name>>)
    ELSE r

(* load_data without its top-level handler. *)
TopLevelHandlerMissing(name, r) == r

(* Lines 130-132: except Exception at the top level of load_data. *)
TopLevelHandler(name, r) ==
    IF r.kind = "raise"
    THEN Return(EmptyDF, <<"error_unexpected", name>>)
    ELSE r

(* The body of load_data, given the client get_gsheet_client returned. *)
load_data_body(name, client, f, cred) ==
    TopLevelHandler(name, TryBlock(name, client, f, cred))

(* A cache whose entries are never served again. *)
CacheNeverValid(cache, name, t) == Has(cache, name) /\ t - cache[name].t < 0

(* st.cache_data(ttl=600): an entry is served while younger than the TTL. *)
CacheValid(cache, name, t) == Has(cache, name) /\ t - cache[name].t < TTL

----------------------------------------------------------------------------
(* The state after construction: no session has run the script yet. *)

InitFor(S) ==
    /\ session_state = [s \in S |-> EmptyMap]
    /\ prompt = [s \in S |-> "none"]
    /\ submitted = [s \in S |-> None]
    /\ rejections = [s \in S |-> 0]
    /\ running = NoSession
    /\ passState = "idle"
    /\ idx = 0
    /\ order = <<>>
    /\ data = EmptyMap
    /\ clientCache = [set |-> FALSE, value |-> 0, msg |-> NoMsg]
    /\ constructions = 0
    /\ dataCache = EmptyMap
    /\ lastCall = EmptyMap
    /\ now = 0
    /\ credFile = "valid"
    /\ remote = RemoteOk

Init == InitFor(Sessions)

loaderVars == <<clientCache, constructions, dataCache, lastCall>>
envVars == <<now, credFile>>
gateVars == <<session_state, prompt, submitted, rejections>>
passVars == <<running, passState, idx, order, data>>

----------------------------------------------------------------------------
(* Every load_data call of a pass starting now would be served from the cache. *)
AllCached == \A i \in 1..Len(platforms) : CacheValid(dataCache, platforms[i], now)

(* A script run: line 80 evaluates check_password() and the pass goes on to
   the loads of line 136 only when it returned True.  cond is the condition
   of the remote service during the pass; it is left at RemoteOk for a pass
   that makes no remote call. *)

BeginPass(s, ss, cond) ==
    LET g == check_password(ss) IN
    /\ passState # "loading"
    /\ remote' = cond
    /\ (~g.ret \/ AllCached) => cond = RemoteOk
    /\ session_state' = [session_state EXCEPT ![s] = g.ss]
    /\ prompt' = [prompt EXCEPT ![s] = g.ui]
    /\ running' = s
    /\ passState' = IF g.ret THEN "loading" ELSE "gated"
    /\ idx' = 0
    /\ order' = <<>>
    /\ data' = EmptyMap

(* A page load or any interaction other than the password input. *)
Rerun(s, cond) ==
    /\ BeginPass(s, session_state[s], cond)
    /\ UNCHANGED <<submitted, rejections, loaderVars, envVars>>

(* The user changes the password input to c: the widget value is stored,
   password_entered runs, and the script reruns. *)
Submit(s, c, cond) ==
    /\ CallbackRegistered(s)
    /\ c # WidgetValue(session_state[s])
    /\ BeginPass(s, password_entered(Put(session_state[s], "password", c)), cond)
    /\ submitted' = [submitted EXCEPT ![s] = c]
    /\ rejections' = [rejections EXCEPT ![s] =
           IF Authenticated(session_state'[s]) \/ @ = MaxRejections THEN @ ELSE @ + 1]
    /\ UNCHANGED <<loaderVars, envVars>>

----------------------------------------------------------------------------
(* Line 136: data = {platform: load_data(platform) for platform in platforms} *)

(* What follows a load_data call that returned or raised r for name. *)
AfterCall(name, r) ==
    /\ idx' = idx + 1
    /\ order' = Append(order, name)
    /\ IF r.kind = "raise"
       THEN /\ passState' = "crashed"
            /\ data' = data
       ELSE /\ passState' = IF idx + 1 = Len(platforms) THEN "rendered" ELSE "loading"
            /\ data' = Put(data, name, r.df)
    /\ remote' = IF passState' = "loading" THEN remote ELSE RemoteOk
    /\ UNCHANGED <<running, gateVars, envVars>>

(* load_data(name) served from the st.cache_data entry. *)
LoadHit ==
    /\ passState = "loading"
    /\ LET name == platforms[idx + 1] IN
       /\ CacheValid(dataCache, name, now)
       /\ lastCall' = Put(lastCall, name,
              [t |-> now, df |-> dataCache[name].df, executed |-> FALSE,
               filled |-> dataCache[name].t])
       /\ AfterCall(name, Return(dataCache[name].df, dataCache[name].msg))
    /\ UNCHANGED <<clientCache, constructions, dataCache>>

(* load_data(name) executed: no entry, or an entry as old as the TTL.
   authOk is whether authorize succeeds if the client has to be built. *)
LoadMiss(authOk) ==
    /\ passState = "loading"
    /\ LET name == platforms[idx + 1]
           f == OutcomeFor(remote, name)
           g == get_gsheet_client(clientCache, credFile, authOk, constructions)
           r == load_data_body(name, g.entry.value, f, credFile)
       IN
       /\ ~CacheValid(dataCache, name, now)
       /\ (clientCache.set \/ credFile # "valid") => authOk
       /\ clientCache' = g.entry
       /\ constructions' = IF g.constructed /\ constructions < MaxCount
                           THEN constructions + 1 ELSE constructions
       /\ dataCache' = IF r.kind = "raise" THEN dataCache
                       ELSE Put(dataCache, name, [df |-> r.df, msg |-> r.msg, t |-> now])
       /\ lastCall' = Put(lastCall, name,
              [t |-> now, df |-> r.df, executed |-> TRUE, filled |-> now])
       /\ AfterCall(name, r)

----------------------------------------------------------------------------
(* The environment, between script runs. *)

Tick ==
    /\ passState # "loading"
    /\ now + Step <= MaxNow
    /\ now' = now + Step
    /\ UNCHANGED <<gateVars, passVars, loaderVars, credFile, remote>>

CredChange(c) ==
    /\ passState # "loading"
    /\ c # credFile
    /\ credFile' = c
    /\ UNCHANGED <<gateVars, passVars, loaderVars, now, remote>>

----------------------------------------------------------------------------

Next ==
    \/ \E s \in Sessions, cond \in RemoteConditions : Rerun(s, cond)
    \/ \E s \in Sessions, c \in Candidates, cond \in RemoteConditions : Submit(s, c, cond)
    \/ LoadHit
    \/ \E authOk \in BOOLEAN : LoadMiss(authOk)
    \/ Tick
    \/ \E c \in {"valid", "missing", "malformed"} : CredChange(c)

Spec == Init /\ [][Next]_vars

(* Two sessions of one process, sharing both caches, with the remote
   service and the credential file in order. *)
InitShared == InitFor(TwoSessions)

NextShared ==
    \/ \E s \in TwoSessions : Rerun(s, RemoteOk)
    \/ \E s \in TwoSessions, c \in Candidates : Submit(s, c, RemoteOk)
    \/ LoadHit
    \/ \E authOk \in BOOLEAN : LoadMiss(authOk)
    \/ Tick

SpecShared == InitShared /\ [][NextShared]_vars

----------------------------------------------------------------------------
(* Properties. *)

KnownPlatforms == <<"note", "wantedly", "benchmark", "prtimes_post", "prtimes_daily", "GA4">>
UnknownNames == {"twitter"}
CredStates == {"valid", "missing", "malformed"}

(* The step is a load_data call, for the dataset CallName. *)
CallStep == passState = "loading" /\ idx' = idx + 1
CallName == platforms[idx + 1]

EnteredMatching(s) ==
    submitted[s] # None /\ Sha256Hex(submitted[s]) = Sha256Hex("tsunagaru")

LoaderActivity ==
    \/ idx' > idx
    \/ lastCall' # lastCall
    \/ dataCache' # dataCache
    \/ clientCache' # clientCache
    \/ constructions' # constructions

(* C1: a load_data call, a client acquisition, a cache lookup or a remote
   fetch happens only inside a pass whose check_password returned True, and
   only for a session that is authenticated because it entered a candidate
   whose digest matches. *)
C1_GateBeforeLoader ==
    [][LoaderActivity =>
          /\ running' = running
          /\ passState = "loading"
          /\ Authenticated(session_state[running])
          /\ EnteredMatching(running)]_vars

(* A rejected session has just finished a pass while another session is
   authenticated and the cache holds all six datasets. *)
C1_Witness ==
    \E s \in DOMAIN session_state, u \in DOMAIN session_state :
        /\ s # u
        /\ running = s
        /\ passState = "gated"
        /\ prompt[s] = "prompt_error"
        /\ Authenticated(session_state[u])
        /\ DOMAIN dataCache = SheetNames

C3_ExpiryRetriesFromScratch ==
    [][(CallStep /\ Has(dataCache, CallName) /\ now - dataCache[CallName].t > TTL) =>
          /\ lastCall'[CallName].executed
          /\ dataCache[CallName].msg[1] = "warning_client_unavailable"
                => constructions' = constructions + 1]_vars

(* load_data_body on a name that is no worksheet of the spreadsheet. *)
UnknownNamesSafe ==
    \A n \in UnknownNames, c \in {0, 1}, cred \in CredStates,
       f \in {"ok"} \cup OpenOutcomes \cup SheetOutcomes :
        LET r == load_data_body(n, c, f, cred) IN
        r.kind = "return" /\ r.df = EmptyDF /\ r.msg # NoMsg

(* C4: no load_data call raises: every call leaves a result for its name,
   and a call that executed with the client unavailable or met a failure
   opening the spreadsheet, resolving the worksheet or fetching the records
   (a failure inside the permission-denied handler included) returns the
   empty table with a message.  The same holds of a name outside the six. *)
C4_NoExceptionEscapes ==
    [][/\ UnknownNamesSafe
       /\ CallStep =>
            LET f == OutcomeFor(remote, CallName) IN
            /\ passState' # "crashed"
            /\ Has(data', CallName)
            /\ Has(dataCache', CallName)
            /\ data'[CallName] = dataCache'[CallName].df
            /\ (lastCall'[CallName].executed
                  /\ (clientCache'.value = 0 \/ f \in OpenOutcomes \cup {"ws_exc", "rec_exc"}))
                 => /\ data'[CallName] = EmptyDF
                    /\ dataCache'[CallName].msg # NoMsg]_vars

(* The credential file could not be read again inside the permission-denied
   handler, and the call returned through the top-level handler. *)
C4_Witness ==
    /\ passState = "loading"
    /\ idx >= 1
    /\ remote.f = "open_perm"
    /\ credFile # "valid"
    /\ clientCache.value # 0
    /\ lastCall["note"].executed
    /\ lastCall["note"].t = now
    /\ dataCache["note"].msg[1] = "error_unexpected"
    /\ data["note"] = EmptyDF

(* C5: an authenticated session stays authenticated, is shown no prompt and
   has check_password return True on every later pass. *)
C5_AuthenticatedForGood ==
    [][\A s \in DOMAIN session_state :
          Authenticated(session_state[s]) =>
             /\ Authenticated(session_state'[s])
             /\ prompt'[s] = "none"
             /\ (running' = s => passState' # "gated")]_vars

(* An authenticated session has finished a later pass in which a load failed. *)
C5_Witness ==
    \E s \in DOMAIN session_state :
        /\ Authenticated(session_state[s])
        /\ running = s
        /\ passState = "rendered"
        /\ now >= TTL
        /\ data["GA4"] = EmptyDF
        /\ dataCache["GA4"].msg[1] = "error_unexpected"

(* C6: a session is authenticated iff the candidate it last submitted has
   the digest of "tsunagaru"; after a mismatch password_correct is False,
   the prompt is shown again with its callback, and the matching candidate
   would still authenticate. *)
C6_DigestDecides ==
    \A s \in DOMAIN session_state :
        LET ss == session_state[s]
            match == Sha256Hex(submitted[s]) = Sha256Hex("tsunagaru")
        IN
        /\ submitted[s] = None => ~Has(ss, "password_correct")
        /\ submitted[s] # None =>
              /\ Authenticated(ss) <=> match
              /\ ~match =>
                    /\ Has(ss, "password_correct")
                    /\ ss["password_correct"] = FALSE
                    /\ prompt[s] = "prompt_error"
                    /\ CallbackRegistered(s)
                    /\ WidgetValue(ss) # "tsunagaru"
                    /\ Authenticated(password_entered(Put(ss, "password", "tsunagaru")))

(* A session authenticated after MaxRejections rejected candidates. *)
C6_Witness ==
    \E s \in DOMAIN session_state :
        /\ Authenticated(session_state[s])
        /\ rejections[s] = MaxRejections
        /\ submitted[s] = "tsunagaru"

(* C7: an authenticated session's state holds no "password" key. *)
C7_NoPlaintextAfterSuccess ==
    \A s \in DOMAIN session_state :
        Authenticated(session_state[s]) => ~Has(session_state[s], "password")

(* An authenticated session has rendered a pass later than the one that
   followed its submission. *)
C7_Witness ==
    \E s \in DOMAIN session_state :
        /\ Authenticated(session_state[s])
        /\ submitted[s] = "tsunagaru"
        /\ running = s
        /\ passState = "rendered"
        /\ \A n \in SheetNames : ~lastCall[n].executed

(* C8: the body of get_gsheet_client runs at most once, and once the cache
   holds its result no call changes the handle or runs the body again. *)
C8_ClientBuiltOnce ==
    [][/\ constructions' <= 1
       /\ clientCache.set =>
             /\ clientCache' = clientCache
             /\ constructions' = constructions]_vars

(* The client was built once and load_data has executed again in a later
   TTL window with it. *)
C8_Witness ==
    /\ constructions = 1
    /\ clientCache.value = 1
    /\ Has(lastCall, "GA4")
    /\ lastCall["GA4"].executed
    /\ lastCall["GA4"].t >= TTL
    /\ lastCall["GA4"].df # EmptyDF

(* C9: a load_data call that meets the permission-denied response returns
   the empty table with the permission message naming the service account
   identity, and one that meets another open failure returns the empty
   table with the spreadsheet-open message. *)
C9_PermissionDeniedNamesIdentity ==
    [][(CallStep /\ lastCall'[CallName].executed /\ clientCache'.value # 0) =>
          LET f == OutcomeFor(remote, CallName) IN
          /\ f = "open_perm" =>
                /\ data'[CallName] = EmptyDF
                /\ dataCache'[CallName].msg = <<"error_permission_denied", ServiceAccountEmail>>
          /\ f \in {"open_api", "open_exc"} =>
                /\ data'[CallName] = EmptyDF
                /\ dataCache'[CallName].msg[1] = "error_open_spreadsheet"]_vars

(* C10: a pass that passed the gate calls load_data for the six names in
   the order of the list, never stops at a failing one (the next call can
   always be made until all six are done), and ends with each name bound to
   the result held for that name. *)
C10_SixLoadsInOrder ==
    /\ passState # "crashed"
    /\ passState \in {"loading", "rendered"} =>
          /\ idx = Len(order)
          /\ idx <= Len(KnownPlatforms)
          /\ order = SubSeq(KnownPlatforms, 1, idx)
          /\ DOMAIN data = {KnownPlatforms[i] : i \in 1..idx}
          /\ \A n \in DOMAIN data :
                /\ Has(dataCache, n)
                /\ data[n] = dataCache[n].df
                /\ data[n] # EmptyDF => data[n][1].sheet = n
    /\ passState = "loading" =>
          /\ idx < Len(KnownPlatforms)
          /\ ENABLED (LoadHit \/ \E authOk \in BOOLEAN : LoadMiss(authOk))
    /\ passState = "rendered" => idx = Len(KnownPlatforms)

(* A pass ended with the third dataset failed and those after it loaded. *)
C10_Witness ==
    /\ passState = "rendered"
    /\ data["note"] # EmptyDF
    /\ data["benchmark"] = EmptyDF
    /\ dataCache["benchmark"].msg[1] = "error_unexpected"
    /\ lastCall["benchmark"].t = now
    /\ data["prtimes_post"] # EmptyDF
    /\ data["GA4"] # EmptyDF

====
